---- MODULE Spec2Model ----
(***************************************************************************)
(* The order service (src/order/main.go) and the payment service           *)
(* (src/payment/main.go) of the webshop: two gin HTTP servers, each with   *)
(* its own MySQL table behind gorm, and the settlement callback that the   *)
(* payment service makes into the order service.                           *)
(*                                                                         *)
(* A handler is a sequence of steps; every store access (db.First,         *)
(* db.Create, db.Save) is one atomic step and the place where other        *)
(* handlers can interleave. Spec serves one client connection at a time    *)
(* (Clients), so the only handlers that overlap are processPayment and     *)
(* the payOrder that serves its callback. SpecLive is Spec with the        *)
(* fairness of the handlers' own steps; SpecRace has two connections, each *)
(* with one request on the same order.                                     *)
(***************************************************************************)
EXTENDS Integers, FiniteSets, Sequences, TLC

\* ------------------------------------------------------------------ bounds

\* Rows the orders table may hold (createOrder and an inserting Save stop there).
MaxOrders == 2
\* Rows the payments table may hold.
MaxPayments == 1

\* ------------------------------------------------------------ wide numbers
\* TLC's integers are 32 bits wide; a Go uint (64 bits) that may exceed that is
\* kept as two decimal limbs: the number is hi * 10^9 + lo, with lo < 10^9.

W(n) == [hi |-> 0, lo |-> n]

\* 2^32 - 1 = 4 * 10^9 + 294967295: the largest value of the MySQL column
\* "int unsigned" that gorm's AutoMigrate gives a Go uint field.
\* Mutant: the column is as wide as the Go field (bigint unsigned).
FitsUint64Column(w) == w.hi >= 0

FitsUintColumn(w) == w.hi < 4 \/ (w.hi = 4 /\ w.lo <= 294967295)

\* 999999999999999, an order id far above every order of the store.
HugeOrderId == [hi |-> 999999, lo |-> 999999999]

\* 444444445554, the order id of the README's load command.
ReadmeOrderId == [hi |-> 444, lo |-> 444445554]

\* ------------------------------------------------------------------ inputs

Items == {"t-shirt", "mug"}
Amounts == {100}
\* An "id" member of a request body: 0 is gorm's blank primary key.
BodyIds == {0, 1, 2}
\* The ids a request path names.
PathIds == {1, 2, 3}
\* What a client may write into the "status" member of a payment body.
ClientStatuses == {"pending", "failed"}

\* A JSON body is a record holding just the members the client sent.
Restrict(f, S) == [x \in S |-> f[x]]

OrderBodies ==
    { Restrict(full, S) :
        full \in [id : BodyIds, item : Items, amount : Amounts, paid : BOOLEAN],
        S \in SUBSET {"id", "item", "amount", "paid"} }

\* The bodies sent to POST /orders name an item and an amount, and no id.
CreateBodies ==
    { b \in OrderBodies : {"item", "amount"} \subseteq DOMAIN b /\ "id" \notin DOMAIN b }

PaymentBodies ==
    { Restrict(full, S) :
        full \in [order_id : {W(1), W(2), HugeOrderId, ReadmeOrderId},
                  amount : Amounts,
                  status : ClientStatuses],
        S \in { T \in SUBSET {"order_id", "amount", "status"} : "amount" \in T } }

\* ------------------------------------------------------------------- state

VARIABLES
    orders,          \* the orders table: id -> [item, amount, paid]
    payments,        \* the payments table: id -> [order_id, amount, status]
    req,             \* per client connection: the request being served
    call             \* per payment request: its callback to the order service

vars == <<orders, payments, req, call>>

\* `var order Order`, `var payment Payment`: Go's zero values.
ZeroOrder == [id |-> 0, item |-> "", amount |-> 0, paid |-> FALSE]
ZeroPayment == [id |-> 0, order_id |-> W(0), amount |-> 0, status |-> ""]

\* c.BindJSON(&v): the members of the body overwrite v's fields, the other
\* fields keep what v held.
BindJSON(v, body) ==
    [f \in DOMAIN v |-> IF f \in DOMAIN body THEN body[f] ELSE v[f]]

\* -------------------------------------------------------------------- gorm
\* A table is a function from primary key to row; a Go struct is the row and
\* its "id" field. A store operation answers [err, store, value]; `up` is
\* whether the database answers at all.

Max(S) == CHOOSE m \in S : \A x \in S : x <= m

Row(v) == Restrict(v, DOMAIN v \ {"id"})

Struct(id, row) ==
    [f \in DOMAIN row \cup {"id"} |-> IF f = "id" THEN id ELSE row[f]]

\* MySQL's AUTO_INCREMENT: one more than the largest key the table has seen
\* (no row is ever deleted, so that is the largest key it holds).
AutoIncrement(store) == Max(DOMAIN store \cup {0}) + 1

Failed(store, v) == [err |-> TRUE, store |-> store, value |-> v]

Insert(store, id, v) ==
    [err   |-> FALSE,
     store |-> [k \in DOMAIN store \cup {id} |-> IF k = id THEN Row(v) ELSE store[k]],
     value |-> Struct(id, Row(v))]

\* db.First(&v, id): the row with that primary key, or an error.
DbFirst(store, id, v, up) ==
    IF up /\ id.hi = 0 /\ id.lo \in DOMAIN store
    THEN [err |-> FALSE, store |-> store, value |-> Struct(id.lo, store[id.lo])]
    ELSE Failed(store, v)

\* db.Create(&v): INSERT; a blank primary key takes the AUTO_INCREMENT value,
\* a key the table holds is a duplicate-key error, and a value outside its
\* column's range (`fits` false) is an out-of-range error (strict SQL mode).
DbCreate(store, v, fits, up) ==
    IF ~up \/ ~fits THEN Failed(store, v)
    ELSE IF v.id = 0 THEN Insert(store, AutoIncrement(store), v)
    ELSE IF v.id \in DOMAIN store THEN Failed(store, v)
    ELSE Insert(store, v.id, v)

\* db.Save(&v), gorm v1: a blank primary key inserts; otherwise UPDATE every
\* column WHERE id = v.id, and when that changed no row (no such row, or a row
\* already equal) FirstOrCreate: leave the row that is there, or insert v.
DbSave(store, v, fits, up) ==
    IF ~up \/ ~fits THEN Failed(store, v)
    ELSE IF v.id = 0 THEN DbCreate(store, v, fits, up)
    ELSE IF v.id \in DOMAIN store
    THEN [err   |-> FALSE,
          store |-> [store EXCEPT ![v.id] = Row(v)],
          value |-> v]
    ELSE DbCreate(store, v, fits, up)

\* ----------------------------------------------------------------- tracing
\* A span is [trace, span, parent]: its trace id, its own id and the id of its
\* parent ("" for a root). The ids the SDK draws at random are the tokens a
\* span is started with, one per place of the source that starts a span; they
\* are compared within one settlement only. A traceparent header is
\* [trace, span]; NoSpan and NoHeader are a context without a span and a
\* request without the header.

NoSpan == [trace |-> "", span |-> "", parent |-> ""]
NoHeader == [trace |-> "", span |-> ""]

\* tracer.Start(ctx, name): a child of the span ctx holds, in its trace; the
\* root of a new trace when ctx holds none.
StartSpan(parent, fresh) ==
    [trace  |-> IF parent = NoSpan THEN fresh ELSE parent.trace,
     span   |-> fresh,
     parent |-> parent.span]

\* c.Request.Context() in a gin handler. Both routers are gin.Default() plus a
\* middleware that only reads trace.SpanFromContext for the log line; nothing
\* extracts the traceparent header into the context, so the context holds no
\* span whatever the request carried.
InboundContext(header) == NoSpan

\* propagation.TraceContext{}.Inject: the header names the span's trace and
\* the span itself as the parent of what the receiver starts.
Inject(s) == [trace |-> s.trace, span |-> s.span]

\* otelhttp.NewTransport(...).RoundTrip: a client span under the span of the
\* request's context, and that span injected into the request's headers.
RoundTrip(ctx) ==
    LET s == StartSpan(ctx, "HTTP PUT")
    IN  [span |-> s, header |-> Inject(s)]

\* ---------------------------------------------------------------- requests
\* A handler's record: op names the handler, pc the step it is at ("done":
\* answered, and the connection is free for the next request), id the path
\* parameter (for POST /payments the order_id of the body), order and payment
\* the handler's local structs once the store has filled them (the JSON of a
\* 2xx answer), status the HTTP status it answered, callbacks the callback
\* requests it has sent, ctx the state of c.Request.Context() ("cancelled" once
\* the client has closed the connection of a request still being served),
\* header the traceparent header it came with and spans the spans that
\* processPayment and payOrder have started for it.

Clients == {1}

Request(op, id) ==
    [op |-> op, pc |-> "start", id |-> id, order |-> ZeroOrder,
     payment |-> ZeroPayment, status |-> 0, callbacks |-> 0, ctx |-> "live",
     header |-> NoHeader, spans |-> {}]

Idle == [Request("idle", W(0)) EXCEPT !.pc = "done"]

\* c.JSON(status, ...) and return.
Answer(h, status) == [h EXCEPT !.pc = "done", !.status = status]

\* The callback of a payment request: pc is "none" (no callback), "start" (sent,
\* not yet served), "fetched", "done" (answered by the order service),
\* "unreachable" (never delivered), "lost" (served, the answer never arrived)
\* or "cancelled" (given up undelivered, its context being cancelled).
NoCall ==
    [pc |-> "none", id |-> W(0), order |-> ZeroOrder, status |-> 0,
     header |-> NoHeader, spans |-> {}]

Free(r) == req[r].pc = "done"

\* ----------------------------------------------------------- order service

\* POST /orders
CreateOrderResult(store, body, up) ==
    LET res == DbCreate(store, BindJSON(ZeroOrder, body), TRUE, up)
    IN  IF res.err
        THEN [store |-> store, req |-> Answer(Request("createOrder", W(0)), 500)]
        ELSE [store |-> res.store,
              req   |-> Answer([Request("createOrder", W(res.value.id))
                                   EXCEPT !.order = res.value], 201)]

createOrder(r) ==
    /\ Free(r)
    /\ \/ /\ req' = [req EXCEPT ![r] = Answer(Request("createOrder", W(0)), 400)]
          /\ UNCHANGED orders
       \/ \E body \in CreateBodies, up \in BOOLEAN :
            LET out == CreateOrderResult(orders, body, up)
            IN  /\ Cardinality(DOMAIN out.store) <= MaxOrders
                /\ orders' = out.store
                /\ req' = [req EXCEPT ![r] = out.req]
    /\ call' = [call EXCEPT ![r] = NoCall]
    /\ UNCHANGED payments

\* GET /orders/:id
GetOrderResult(store, id, up) ==
    LET res == DbFirst(store, id, ZeroOrder, up)
    IN  IF res.err
        THEN Answer(Request("getOrder", id), 404)
        ELSE Answer([Request("getOrder", id) EXCEPT !.order = res.value], 200)

getOrder(r) ==
    /\ Free(r)
    /\ \E id \in PathIds, up \in BOOLEAN :
         req' = [req EXCEPT ![r] = GetOrderResult(orders, W(id), up)]
    /\ call' = [call EXCEPT ![r] = NoCall]
    /\ UNCHANGED <<orders, payments>>

\* PUT /orders/:id, up to db.First
UpdateOrderFirst(h, store, up) ==
    LET res == DbFirst(store, h.id, h.order, up)
    IN  IF res.err THEN Answer(h, 404)
        ELSE [h EXCEPT !.pc = "fetched", !.order = res.value]

updateOrderFirst(r) ==
    /\ Free(r)
    /\ \E id \in PathIds, up \in BOOLEAN :
         req' = [req EXCEPT ![r] = UpdateOrderFirst(Request("updateOrder", W(id)), orders, up)]
    /\ call' = [call EXCEPT ![r] = NoCall]
    /\ UNCHANGED <<orders, payments>>

\* Mutant: the UPDATE names only the columns the body supplied (db.Model(&order).
\* Updates(body)) and leaves the others as the table has them.
UpdateOrderSaveColumns(h, store, body, up) ==
    LET v   == BindJSON(h.order, body)
        row == IF v.id \in DOMAIN store
               THEN BindJSON(Struct(v.id, store[v.id]), body)
               ELSE v
        res == DbSave(store, row, TRUE, up)
    IN  IF res.err
        THEN [store |-> store, req |-> Answer([h EXCEPT !.order = ZeroOrder], 500)]
        ELSE [store |-> res.store, req |-> Answer([h EXCEPT !.order = v], 200)]

\* Mutant: the body is bound into a fresh Order that has only the fetched id.
UpdateOrderSaveFromBody(h, store, body, up) ==
    LET res == DbSave(store, BindJSON([ZeroOrder EXCEPT !.id = h.order.id], body), TRUE, up)
    IN  IF res.err
        THEN [store |-> store, req |-> Answer([h EXCEPT !.order = ZeroOrder], 500)]
        ELSE [store |-> res.store, req |-> Answer([h EXCEPT !.order = res.value], 200)]

\* PUT /orders/:id, from c.BindJSON on
UpdateOrderSave(h, store, body, up) ==
    LET res == DbSave(store, BindJSON(h.order, body), TRUE, up)
    IN  IF res.err
        THEN [store |-> store, req |-> Answer([h EXCEPT !.order = ZeroOrder], 500)]
        ELSE [store |-> res.store, req |-> Answer([h EXCEPT !.order = res.value], 200)]

updateOrderSave(r) ==
    /\ req[r].op = "updateOrder"
    /\ req[r].pc = "fetched"
    /\ \/ /\ req' = [req EXCEPT ![r] = Answer([req[r] EXCEPT !.order = ZeroOrder], 400)]
          /\ UNCHANGED orders
       \/ \E body \in OrderBodies, up \in BOOLEAN :
            LET out == UpdateOrderSave(req[r], orders, body, up)
            IN  /\ Cardinality(DOMAIN out.store) <= MaxOrders
                /\ orders' = out.store
                /\ req' = [req EXCEPT ![r] = out.req]
    /\ UNCHANGED <<payments, call>>

\* Mutant: the `return` after the 404 is missing.
PayOrderFirstNoReturn(h, store, up) ==
    LET res == DbFirst(store, h.id, h.order, up)
    IN  [h EXCEPT !.pc = "fetched", !.order = res.value]

\* PUT /orders/:id/pay, up to db.First
PayOrderFirst(h, store, up) ==
    LET span == StartSpan(InboundContext(h.header), "payOrder")
        g    == [h EXCEPT !.spans = {span}]
        res  == DbFirst(store, g.id, g.order, up)
    IN  IF res.err THEN Answer(g, 404)
        ELSE [g EXCEPT !.pc = "fetched", !.order = res.value]

\* Mutant: order.Paid = true is missing.
PayOrderSaveKeepsPaid(h, store, up) ==
    LET res == DbSave(store, h.order, TRUE, up)
    IN  IF res.err
        THEN [store |-> store, req |-> Answer([h EXCEPT !.order = ZeroOrder], 500)]
        ELSE [store |-> res.store, req |-> Answer([h EXCEPT !.order = res.value], 200)]

\* Mutant: an order that is already paid is refused.
PayOrderSaveRejectsPaid(h, store, up) ==
    LET res == DbSave(store, [h.order EXCEPT !.paid = TRUE], TRUE, up)
    IN  IF res.err \/ h.order.paid
        THEN [store |-> store, req |-> Answer([h EXCEPT !.order = ZeroOrder], 500)]
        ELSE [store |-> res.store, req |-> Answer([h EXCEPT !.order = res.value], 200)]

\* PUT /orders/:id/pay, from order.Paid = true on
PayOrderSave(h, store, up) ==
    LET res == DbSave(store, [h.order EXCEPT !.paid = TRUE], TRUE, up)
    IN  IF res.err
        THEN [store |-> store, req |-> Answer([h EXCEPT !.order = ZeroOrder], 500)]
        ELSE [store |-> res.store, req |-> Answer([h EXCEPT !.order = res.value], 200)]

\* PUT /orders/<id>/pay from its first statement to its answer, with no other
\* handler between its db.First and its db.Save and the store answering.
MarkPaid(store, id) ==
    LET h == PayOrderFirst(Request("payOrder", W(id)), store, TRUE)
    IN  IF h.pc = "done" THEN [store |-> store, req |-> h]
        ELSE PayOrderSave(h, store, TRUE)

\* payOrder serving a client's own request
payOrderFirst(r) ==
    /\ Free(r)
    /\ \E id \in PathIds, up \in BOOLEAN :
         req' = [req EXCEPT ![r] = PayOrderFirst(Request("payOrder", W(id)), orders, up)]
    /\ call' = [call EXCEPT ![r] = NoCall]
    /\ UNCHANGED <<orders, payments>>

payOrderSave(r) ==
    /\ req[r].op = "payOrder"
    /\ req[r].pc = "fetched"
    /\ \E up \in BOOLEAN :
         LET out == PayOrderSave(req[r], orders, up)
         IN  /\ orders' = out.store
             /\ req' = [req EXCEPT ![r] = out.req]
    /\ UNCHANGED <<payments, call>>

\* payOrder serving the callback of payment request r
callbackFirst(r) ==
    /\ call[r].pc = "start"
    /\ \E up \in BOOLEAN :
         call' = [call EXCEPT ![r] = PayOrderFirst(call[r], orders, up)]
    /\ UNCHANGED <<orders, payments, req>>

callbackSave(r) ==
    /\ call[r].pc = "fetched"
    /\ \E up \in BOOLEAN :
         LET out == PayOrderSave(call[r], orders, up)
         IN  /\ orders' = out.store
             /\ call' = [call EXCEPT ![r] = out.req]
    /\ UNCHANGED <<payments, req>>

\* --------------------------------------------------------- payment service

\* Mutant: payment.Status = "success" is missing.
ProcessPaymentSendKeepsStatus(store, env, body, up) ==
    LET payment == BindJSON(ZeroPayment, body)
        res     == DbCreate(store, payment, FitsUintColumn(payment.order_id), up)
        new     == Request("processPayment", payment.order_id)
        h       == [new EXCEPT !.payment = res.value]
    IN  IF res.err
        THEN [store |-> store, req |-> Answer(new, 500), call |-> NoCall]
        ELSE IF ~env
        THEN [store |-> res.store, req |-> Answer(h, 500), call |-> NoCall]
        ELSE [store |-> res.store,
              req   |-> [h EXCEPT !.pc = "calling", !.callbacks = h.callbacks + 1],
              call  |-> [NoCall EXCEPT !.pc = "start", !.id = payment.order_id]]

\* Mutant: the row is written only once the callback has answered, so the
\* callback is sent with the table as it was.
ProcessPaymentSendBeforePersist(store, env, body, up) ==
    LET payment == [BindJSON(ZeroPayment, body) EXCEPT !.status = "success"]
        res     == DbCreate(store, payment, FitsUintColumn(payment.order_id), up)
        new     == Request("processPayment", payment.order_id)
        h       == [new EXCEPT !.payment = res.value]
    IN  IF res.err
        THEN [store |-> store, req |-> Answer(new, 500), call |-> NoCall]
        ELSE IF ~env
        THEN [store |-> store, req |-> Answer(h, 500), call |-> NoCall]
        ELSE [store |-> store,
              req   |-> [h EXCEPT !.pc = "calling", !.callbacks = h.callbacks + 1],
              call  |-> [NoCall EXCEPT !.pc = "start", !.id = payment.order_id]]

\* Mutant: the `return` after the 500 of a failed db.Create is missing.
ProcessPaymentSendNoReturn(store, env, body, up) ==
    LET payment == [BindJSON(ZeroPayment, body) EXCEPT !.status = "success"]
        res     == DbCreate(store, payment, FitsUintColumn(payment.order_id), up)
        new     == Request("processPayment", payment.order_id)
        h       == [new EXCEPT !.payment = res.value]
    IN  IF ~env
        THEN [store |-> res.store, req |-> Answer(h, 500), call |-> NoCall]
        ELSE [store |-> res.store,
              req   |-> [h EXCEPT !.pc = "calling", !.callbacks = h.callbacks + 1],
              call  |-> [NoCall EXCEPT !.pc = "start", !.id = payment.order_id]]

\* The spans processPayment starts itself: dbSpan, then `span` under it, then
\* httpSpan under `span`.
ProcessPaymentSpans(inbound) ==
    LET dbSpan   == StartSpan(inbound, "create payment in DB")
        span     == StartSpan(dbSpan, "update order service")
        httpSpan == StartSpan(span, "update order service, http")
    IN  [dbSpan |-> dbSpan, span |-> span, httpSpan |-> httpSpan]

\* Mutant: the callback request is built with context.Background().
CallbackContextBackground(spans) == NoSpan

\* http.NewRequestWithContext(ctx, ...): ctx is still the one tracer.Start
\* returned with dbSpan; `span` and httpSpan are started after the request was
\* built.
CallbackContext(spans) == spans.dbSpan

\* POST /payments, up to client.Do: bind, overwrite the status, insert, read
\* ORDER_SERVICE (env: whether the process was started with it set) and send
\* PUT /orders/<order_id>/pay.
ProcessPaymentSend(store, env, body, up) ==
    LET payment == [BindJSON(ZeroPayment, body) EXCEPT !.status = "success"]
        res     == DbCreate(store, payment, FitsUintColumn(payment.order_id), up)
        arrived == Request("processPayment", payment.order_id)
        spans   == ProcessPaymentSpans(InboundContext(arrived.header))
        trip    == RoundTrip(CallbackContext(spans))
        new     == [arrived EXCEPT !.spans = {spans.dbSpan}]
        h       == [new EXCEPT !.payment = res.value]
    IN  IF res.err
        THEN [store |-> store, req |-> Answer(new, 500), call |-> NoCall]
        ELSE IF ~env
        THEN [store |-> res.store, req |-> Answer(h, 500), call |-> NoCall]
        ELSE [store |-> res.store,
              req   |-> [h EXCEPT !.pc = "calling", !.callbacks = h.callbacks + 1,
                                  !.spans = {spans.dbSpan, spans.span,
                                             spans.httpSpan, trip.span}],
              call  |-> [NoCall EXCEPT !.pc = "start", !.id = payment.order_id,
                                       !.header = trip.header]]

processPaymentSend(r) ==
    /\ Free(r)
    /\ \/ /\ req' = [req EXCEPT ![r] = Answer(Request("processPayment", W(0)), 400)]
          /\ call' = [call EXCEPT ![r] = NoCall]
          /\ UNCHANGED payments
       \/ \E body \in PaymentBodies, env \in BOOLEAN, up \in BOOLEAN :
            LET out == ProcessPaymentSend(payments, env, body, up)
            IN  /\ Cardinality(DOMAIN out.store) <= MaxPayments
                /\ payments' = out.store
                /\ req' = [req EXCEPT ![r] = out.req]
                /\ call' = [call EXCEPT ![r] = out.call]
    /\ UNCHANGED orders

\* Mutant: the success answer is http.StatusOK.
ProcessPaymentStatusOk(err, status) ==
    IF err \/ status # 200 THEN 500 ELSE 200

\* Mutant: only a transport error fails the request.
ProcessPaymentStatusErrOnly(err, status) ==
    IF err THEN 500 ELSE 201

\* POST /payments, from the return of client.Do: err is a transport error.
ProcessPaymentStatus(err, status) ==
    IF err \/ status # 200 THEN 500 ELSE 201

\* client.Do returns the order service's answer.
processPaymentAnswered(r) ==
    /\ req[r].op = "processPayment"
    /\ req[r].pc = "calling"
    /\ call[r].pc = "done"
    /\ req' = [req EXCEPT ![r] = Answer(req[r], ProcessPaymentStatus(FALSE, call[r].status))]
    /\ UNCHANGED <<orders, payments, call>>

\* client.Do returns a transport error: the request never reached the order
\* service, or its answer never came back.
processPaymentTransportError(r) ==
    /\ req[r].op = "processPayment"
    /\ req[r].pc = "calling"
    /\ call[r].pc \in {"start", "done"}
    /\ req' = [req EXCEPT ![r] = Answer(req[r], ProcessPaymentStatus(TRUE, 0))]
    /\ call' = [call EXCEPT ![r].pc = IF call[r].pc = "start" THEN "unreachable" ELSE "lost"]
    /\ UNCHANGED <<orders, payments>>

\* client.Do returns context.Canceled: the callback request was built with the
\* context of the client's request (NewRequestWithContext(ctx, ...), ctx from
\* tracer.Start(c.Request.Context(), ...)), and the transport gives up a
\* request whose context is cancelled before it is served.
processPaymentCancelled(r) ==
    /\ req[r].op = "processPayment"
    /\ req[r].pc = "calling"
    /\ req[r].ctx = "cancelled"
    /\ call[r].pc = "start"
    /\ req' = [req EXCEPT ![r] = Answer(req[r], ProcessPaymentStatus(TRUE, 0))]
    /\ call' = [call EXCEPT ![r].pc = "cancelled"]
    /\ UNCHANGED <<orders, payments>>

processPaymentReturn(r) ==
    \/ processPaymentAnswered(r)
    \/ processPaymentTransportError(r)
    \/ processPaymentCancelled(r)

\* The client of POST /payments closes its connection while the handler waits
\* in client.Do: net/http cancels the request's context.
clientDisconnect(r) ==
    /\ req[r].op = "processPayment"
    /\ req[r].pc = "calling"
    /\ req[r].ctx = "live"
    /\ req' = [req EXCEPT ![r].ctx = "cancelled"]
    /\ UNCHANGED <<orders, payments, call>>

\* GET /payments/:id
GetPaymentResult(store, id, up) ==
    LET res == DbFirst(store, id, ZeroPayment, up)
    IN  IF res.err
        THEN Answer(Request("getPayment", id), 500)
        ELSE Answer([Request("getPayment", id) EXCEPT !.payment = res.value], 200)

getPayment(r) ==
    /\ Free(r)
    /\ \E id \in 1..(MaxPayments + 1), up \in BOOLEAN :
         req' = [req EXCEPT ![r] = GetPaymentResult(payments, W(id), up)]
    /\ call' = [call EXCEPT ![r] = NoCall]
    /\ UNCHANGED <<orders, payments>>

\* ------------------------------------------- order service, payment proxy

\* GET /orders/:id/payment: read PAYMENT_SERVICE_URL (env: whether the process
\* was started with it set), GET <url>/payments/<id> with the order's path
\* parameter, which the payment service serves by GetPaymentResult; err is a
\* transport error of client.Do. Anything but a 200 from the payment service
\* answers 500, a 200 is passed on with its body.
GetPaymentStatusResult(store, env, id, err, up) ==
    LET new  == Request("getPaymentStatus", id)
        resp == GetPaymentResult(store, id, up)
    IN  IF ~env \/ err \/ resp.status # 200
        THEN Answer(new, 500)
        ELSE Answer([new EXCEPT !.payment = resp.payment], 200)

getPaymentStatus(r) ==
    /\ Free(r)
    /\ \E id \in PathIds, env \in BOOLEAN, err \in BOOLEAN, up \in BOOLEAN :
         req' = [req EXCEPT ![r] = GetPaymentStatusResult(payments, env, W(id), err, up)]
    /\ call' = [call EXCEPT ![r] = NoCall]
    /\ UNCHANGED <<orders, payments>>

\* ----------------------------------------------------------- specification

Init ==
    /\ orders = Restrict([none |-> 0], {})
    /\ payments = Restrict([none |-> 0], {})
    /\ req = [r \in Clients |-> Idle]
    /\ call = [r \in Clients |-> NoCall]

Next ==
    \E r \in Clients :
        \/ createOrder(r)
        \/ getOrder(r)
        \/ updateOrderFirst(r)
        \/ updateOrderSave(r)
        \/ payOrderFirst(r)
        \/ payOrderSave(r)
        \/ callbackFirst(r)
        \/ callbackSave(r)
        \/ processPaymentSend(r)
        \/ processPaymentReturn(r)
        \/ clientDisconnect(r)
        \/ getPayment(r)
        \/ getPaymentStatus(r)

Spec == Init /\ [][Next]_vars

\* A handler's goroutine, once started, takes its next step: the store answers
\* (or fails) and client.Do returns once the order service has answered or the
\* request's context is cancelled. Nothing makes a client send a request or
\* close its connection, the network fail, or the order service serve the
\* callback it was sent: the http.Client of processPayment has no Timeout and
\* its context no deadline.
Fairness ==
    \A r \in Clients :
        /\ WF_vars(updateOrderSave(r))
        /\ WF_vars(payOrderSave(r))
        /\ WF_vars(processPaymentAnswered(r))
        /\ WF_vars(processPaymentCancelled(r))

SpecLive == Init /\ [][Next]_vars /\ Fairness

\* ------------------------------------------- concurrent requests, one order
\* gin serves every request on a goroutine of its own: two connections, each
\* sending one PUT /orders/1 or one PUT /orders/1/pay, their store accesses
\* interleaved in every order. The bodies supply an item, an amount or both,
\* and neither id nor paid.

RaceClients == {1, 2}
RaceOrderId == 1
RaceAmounts == {10, 20}

RaceBodies ==
    { Restrict(full, S) :
        full \in [item : Items, amount : RaceAmounts],
        S \in (SUBSET {"item", "amount"}) \ {{}} }

\* The orders table holds order 1, as createOrder and payOrder can leave it.
RaceInit ==
    /\ \E item \in Items, amount \in Amounts, paid \in BOOLEAN :
         orders = [id \in {RaceOrderId} |-> [item |-> item, amount |-> amount, paid |-> paid]]
    /\ payments = Restrict([none |-> 0], {})
    /\ req = [r \in RaceClients |-> Idle]
    /\ call = [r \in RaceClients |-> NoCall]

raceUpdateFirst(r) ==
    /\ req[r].op = "idle"
    /\ \E up \in BOOLEAN :
         req' = [req EXCEPT ![r] =
                    UpdateOrderFirst(Request("updateOrder", W(RaceOrderId)), orders, up)]
    /\ UNCHANGED <<orders, payments, call>>

raceUpdateSave(r) ==
    /\ req[r].op = "updateOrder"
    /\ req[r].pc = "fetched"
    /\ \/ /\ req' = [req EXCEPT ![r] = Answer([req[r] EXCEPT !.order = ZeroOrder], 400)]
          /\ UNCHANGED orders
       \/ \E body \in RaceBodies, up \in BOOLEAN :
            LET out == UpdateOrderSave(req[r], orders, body, up)
            IN  /\ orders' = out.store
                /\ req' = [req EXCEPT ![r] = out.req]
    /\ UNCHANGED <<payments, call>>

racePayFirst(r) ==
    /\ req[r].op = "idle"
    /\ \E up \in BOOLEAN :
         req' = [req EXCEPT ![r] =
                    PayOrderFirst(Request("payOrder", W(RaceOrderId)), orders, up)]
    /\ UNCHANGED <<orders, payments, call>>

racePaySave(r) ==
    /\ req[r].op = "payOrder"
    /\ req[r].pc = "fetched"
    /\ \E up \in BOOLEAN :
         LET out == PayOrderSave(req[r], orders, up)
         IN  /\ orders' = out.store
             /\ req' = [req EXCEPT ![r] = out.req]
    /\ UNCHANGED <<payments, call>>

RaceNext ==
    \E r \in RaceClients :
        \/ raceUpdateFirst(r)
        \/ raceUpdateSave(r)
        \/ racePayFirst(r)
        \/ racePaySave(r)

SpecRace == RaceInit /\ [][RaceNext]_vars

\* ------------------------------------------------------------------ claims

Exists(store, id) == id.hi = 0 /\ id.lo \in DOMAIN store

Done(r, op) == req[r].op = op /\ req[r].pc = "done"

\* The callback failed as the order service being unreachable, or as an answer
\* that is not 200.
CallbackFailed(c) == c.pc = "unreachable" \/ (c.pc = "done" /\ c.status # 200)

\* A row of the payments table for that order, with status success.
SuccessPaymentFor(id) ==
    \E p \in DOMAIN payments :
        payments[p].order_id = id /\ payments[p].status = "success"

\* The row the handler's local payment struct was written as is in the table.
PaymentRowStays(h) ==
    /\ h.payment.id \in DOMAIN payments
    /\ payments[h.payment.id] = Row(h.payment)
    /\ payments[h.payment.id].status = "success"

\* C1. Settlement success: once CreatePayment(order_id, amount) has answered
\* 201, the GetOrder(order_id) that follows it answers 200 with paid = true, and
\* the payments table holds a row with that order_id and status success.
C1_SettlementSuccess ==
    \A r \in Clients :
        (Done(r, "processPayment") /\ req[r].status = 201) =>
            LET got == GetOrderResult(orders, req[r].id, TRUE)
            IN  /\ got.status = 200
                /\ got.order.paid = TRUE
                /\ SuccessPaymentFor(req[r].id)

C1_Witness ==
    \E r \in Clients :
        /\ Done(r, "processPayment")
        /\ req[r].status = 201
        /\ Exists(orders, req[r].id)
        /\ call[r].pc = "done"
        /\ call[r].order.paid = TRUE

\* C2. Orphan window: when the callback of a CreatePayment fails (the order
\* service unreachable, or an answer other than 200), CreatePayment answers 500
\* and the row it wrote is still in the payments table with status success; no
\* row of the payments table is ever deleted or modified; and no step of a
\* request whose callback fails changes the orders table.
C2_OrphanState ==
    \A r \in Clients :
        (Done(r, "processPayment") /\ CallbackFailed(call[r])) =>
            /\ req[r].status = 500
            /\ PaymentRowStays(req[r])
            /\ GetPaymentResult(payments, W(req[r].payment.id), TRUE).payment.status = "success"

C2_PaymentsKept ==
    \A p \in DOMAIN payments :
        p \in DOMAIN payments' /\ payments'[p] = payments[p]

C2_OrderUntouched ==
    \A r \in Clients :
        (req[r].op = "processPayment" /\ req[r].pc = "calling" /\ orders' # orders) =>
            (call'[r].pc = "done" /\ call'[r].status = 200)

C2_OrphanWindow ==
    /\ []C2_OrphanState
    /\ [][C2_PaymentsKept /\ C2_OrderUntouched]_vars

C2_Witness ==
    \E r \in Clients :
        /\ Done(r, "processPayment")
        /\ call[r].pc = "unreachable"
        /\ req[r].status = 500
        /\ PaymentRowStays(req[r])
        /\ Exists(orders, req[r].id)
        /\ orders[req[r].id.lo].paid = FALSE

\* C3. No partial success: CreatePayment answers 201 only if its row was
\* written and the callback was answered 200; whenever the callback fails or is
\* answered anything else, CreatePayment answers 500.
C3_NoPartialSuccess ==
    \A r \in Clients :
        Done(r, "processPayment") =>
            /\ req[r].status = 201 =>
                   (PaymentRowStays(req[r]) /\ call[r].pc = "done" /\ call[r].status = 200)
            /\ (call[r].pc \in {"unreachable", "lost"} \/ CallbackFailed(call[r])) =>
                   req[r].status = 500

C3_Witness ==
    \E r \in Clients :
        /\ Done(r, "processPayment")
        /\ call[r].pc = "done"
        /\ call[r].status = 404
        /\ req[r].status = 500
        /\ PaymentRowStays(req[r])

\* C4. Round trip: after CreateOrder has answered 201, GetOrder on the id it
\* returned answers the item and the amount of the created order, and
\* paid = false.
C4_RoundTrip ==
    \A r \in Clients :
        (Done(r, "createOrder") /\ req[r].status = 201) =>
            LET got == GetOrderResult(orders, req[r].id, TRUE)
            IN  /\ got.status = 200
                /\ got.order.item = req[r].order.item
                /\ got.order.amount = req[r].order.amount
                /\ got.order.paid = FALSE

\* C5. Status overwrite: every row of the payments table has status success,
\* whatever the client wrote (or did not write) as the status of the body; no
\* body of the model says "success" itself.
C5_StatusOverwrite ==
    \A p \in DOMAIN payments : payments[p].status = "success"

C5_Witness ==
    /\ "success" \notin ClientStatuses
    /\ \E r \in Clients :
        /\ req[r].op = "processPayment"
        /\ req[r].payment.id \in DOMAIN payments
        /\ payments[req[r].payment.id].status = "success"

\* The step in which updateOrder of connection r binds the body and saves.
UpdateOrderSaves(r) ==
    /\ req[r].op = "updateOrder"
    /\ req[r].pc = "fetched"
    /\ req'[r].pc = "done"

\* C6. Only the settlement callback changes paid: the step in which
\* UpdateOrder binds its body and saves leaves the paid value of every order
\* as it was.
C6_UpdateKeepsPaid ==
    [][\A r \in Clients :
         UpdateOrderSaves(r) =>
             \A i \in DOMAIN orders :
                 i \in DOMAIN orders' /\ orders'[i].paid = orders[i].paid]_vars

\* C7. UpdateOrder is local to its target: the step in which UpdateOrder(id,
\* fields) binds its body and saves creates no order and changes no order
\* other than the one whose id is the path id.
C7_UpdateIsLocal ==
    [][\A r \in Clients :
         UpdateOrderSaves(r) =>
             /\ DOMAIN orders' = DOMAIN orders
             /\ \A i \in DOMAIN orders :
                    W(i) # req[r].id => orders'[i] = orders[i]]_vars

\* C8. Not-found propagation: GetOrder and MarkPaid (a client's, or the
\* callback of a CreatePayment) on an id with no order answer 404; the step that
\* answers 404 leaves the orders table as it was, and no step of MarkPaid adds
\* a row to it; a CreatePayment whose callback was answered 404 has sent that
\* one callback and no other, and answers 500.
C8_Answers404 ==
    /\ \A r \in Clients :
        /\ (req[r].op \in {"getOrder", "payOrder"} /\ req[r].pc = "done"
                /\ ~Exists(orders, req[r].id)) => req[r].status = 404
        /\ (call[r].pc = "done" /\ ~Exists(orders, call[r].id)) => call[r].status = 404
        /\ req[r].callbacks <= 1
        /\ (Done(r, "processPayment") /\ call[r].pc = "done" /\ call[r].status = 404) =>
               (req[r].callbacks = 1 /\ req[r].status = 500)

C8_StoreUnchanged ==
    \A r \in Clients :
        /\ (req'[r] # req[r] /\ req'[r].op \in {"getOrder", "payOrder"}
                /\ req'[r].status = 404) => orders' = orders
        /\ (call'[r] # call[r] /\ call'[r].status = 404) => orders' = orders
        /\ (req'[r] # req[r] /\ req'[r].op = "payOrder") => DOMAIN orders' = DOMAIN orders
        /\ (call[r].pc \in {"start", "fetched"} /\ call'[r].pc \in {"fetched", "done"}) =>
               DOMAIN orders' = DOMAIN orders
        /\ (call[r].pc = "done" /\ call[r].status = 404 /\ req'[r].op = "processPayment"
                /\ req[r].pc = "calling") =>
               (req'[r].callbacks = req[r].callbacks /\ call'[r].pc \in {"done", "lost"})

C8_NotFoundPropagation ==
    /\ []C8_Answers404
    /\ [][C8_StoreUnchanged]_vars

C8_Witness ==
    \E r \in Clients :
        /\ Done(r, "processPayment")
        /\ call[r].pc = "done"
        /\ call[r].status = 404
        /\ ~Exists(orders, call[r].id)
        /\ req[r].callbacks = 1
        /\ DOMAIN orders # {}

\* C9, as claimed. CreatePayment with order_id = 999999999999999 leaves a row
\* of the payments table with that order_id and status success, its callback
\* is answered 404, and it answers 500.
C9_HugeOrderIdPersisted ==
    \A r \in Clients :
        (Done(r, "processPayment") /\ req[r].id = HugeOrderId) =>
            /\ SuccessPaymentFor(HugeOrderId)
            /\ call[r].pc = "done"
            /\ call[r].status = 404
            /\ req[r].status = 500

\* C9, amended. CreatePayment with order_id = 999999999999999 answers 500
\* without writing a row and without sending a callback, on every run: the
\* value is out of the range of the order_id column, so no row of the payments
\* table ever has it. With an order_id that fits the column and names no
\* order, the row is written with status success, the callback is answered 404
\* and CreatePayment answers 500.
C9_UnvalidatedReference ==
    /\ ~SuccessPaymentFor(HugeOrderId)
    /\ \A p \in DOMAIN payments : FitsUintColumn(payments[p].order_id)
    /\ \A r \in Clients :
        /\ (req[r].op = "processPayment" /\ req[r].id = HugeOrderId) =>
               /\ req[r].pc = "done"
               /\ req[r].status = 500
               /\ req[r].callbacks = 0
               /\ call[r].pc = "none"
        /\ (Done(r, "processPayment") /\ call[r].pc = "done" /\ ~Exists(orders, req[r].id)) =>
               /\ call[r].status = 404
               /\ req[r].status = 500
               /\ PaymentRowStays(req[r])
               /\ req[r].payment.order_id = req[r].id

C9_Witness ==
    \E r \in Clients :
        /\ Done(r, "processPayment")
        /\ req[r].id = HugeOrderId
        /\ req[r].status = 500
        /\ DOMAIN payments = {}

\* C10. GetPayment(id) on an id with no row of the payments table answers
\* 404 when the store itself answers.
C10_GetPaymentNotFound ==
    \A r \in Clients :
        (Done(r, "getPayment") /\ ~Exists(payments, req[r].id)) =>
            GetPaymentResult(payments, req[r].id, TRUE).status = 404

\* C11: whenever GET /orders/<id>/payment answers 200, the payment it returns
\* has order_id = <id>.
C11_KeyedByOrderId ==
    \A r \in Clients :
        (Done(r, "getPaymentStatus") /\ req[r].status = 200)
            => req[r].payment.order_id = req[r].id

\* C12: when two concurrent PUT /orders/1 that supplied different amounts have
\* both answered 200, the stored order has the item and the amount of the row
\* that one of the two saved and answered: it is one of the two rows, not a
\* mix of the columns of both.
C12_LastWriteWins ==
    (/\ \A r \in RaceClients : Done(r, "updateOrder") /\ req[r].status = 200
     /\ req[1].order.amount # req[2].order.amount)
        => \E r \in RaceClients :
               /\ orders[RaceOrderId].item = req[r].order.item
               /\ orders[RaceOrderId].amount = req[r].order.amount

\* Both answered 200 with rows that differ in item and in amount, and the
\* table holds the row of the second.
C12_Witness ==
    /\ \A r \in RaceClients : Done(r, "updateOrder") /\ req[r].status = 200
    /\ req[1].order.amount # req[2].order.amount
    /\ req[1].order.item # req[2].order.item
    /\ req[1].order.amount \in RaceAmounts
    /\ req[2].order.amount \in RaceAmounts
    /\ Row(req[2].order) = orders[RaceOrderId]

\* C13: when the client of POST /payments closed its connection after the
\* payment was persisted and the callback sent, and the network did not fail,
\* the payment row stays and the callback has run to completion by the time
\* the handler is done.
C13_DisconnectKeepsSettlement ==
    \A r \in Clients :
        (/\ Done(r, "processPayment")
         /\ req[r].ctx = "cancelled"
         /\ call[r].pc \notin {"unreachable", "lost"})
            => /\ PaymentRowStays(req[r])
               /\ call[r].pc = "done"

\* The span processPayment opened for the request.
DbSpan(h) == CHOOSE s \in h.spans : s.span = "create payment in DB"

\* C14: the traceparent header of the callback request names the trace of the
\* span processPayment opened for the client's request, and as parent a span
\* of that request, of that trace, started under another span of the request.
C14_CallerTraceContinuity ==
    \A r \in Clients :
        call[r].pc # "none" =>
            /\ call[r].header.trace = DbSpan(req[r]).trace
            /\ \E s \in req[r].spans :
                   /\ s.span = call[r].header.span
                   /\ s.trace = DbSpan(req[r]).trace
                   /\ \E p \in req[r].spans : p.span = s.parent

C14_Witness ==
    \E r \in Clients :
        /\ Done(r, "processPayment")
        /\ req[r].status = 201
        /\ call[r].header # NoHeader
        /\ Cardinality(req[r].spans) = 4

\* C15: the span payOrder opens for a settlement callback has the trace id of
\* the traceparent header the callback carried, and the header's span as its
\* parent.
C15_ReceiverInheritsTrace ==
    \A r \in Clients :
        call[r].pc \in {"fetched", "done"} =>
            \A s \in call[r].spans :
                /\ s.trace = call[r].header.trace
                /\ s.parent = call[r].header.span

\* The statuses the interface table gives each operation.
DocumentedStatuses ==
    [createOrder      |-> {201, 400, 500},
     getOrder         |-> {200, 404},
     updateOrder      |-> {200, 400, 404, 500},
     payOrder         |-> {200, 404, 500},
     getPaymentStatus |-> {200, 500},
     processPayment   |-> {201, 400, 500},
     getPayment       |-> {200, 404, 500}]

Waiting(r) == req[r].op = "processPayment" /\ req[r].pc = "calling"

\* C16, as claimed: every POST /payments that sent its callback eventually
\* answers, whatever the order service does with the callback.
C16_DefinitiveResponse ==
    \A r \in Clients : Waiting(r) ~> Done(r, "processPayment")

\* C16, amended: a request has no status until it is answered and then one of
\* its operation's documented statuses; a handler that has fetched its row
\* answers; a POST /payments whose callback the order service has answered
\* answers 201 or 500; and a POST /payments answers only after the callback
\* was answered, failed in the transport or was cancelled, so that it waits
\* for as long as the order service leaves the callback unanswered.
C16_StatusOnceAnswered ==
    \A r \in Clients :
        /\ req[r].pc # "done" => req[r].status = 0
        /\ (req[r].pc = "done" /\ req[r].op # "idle") =>
               req[r].status \in DocumentedStatuses[req[r].op]
        /\ call[r].pc \in {"start", "fetched"} => Waiting(r)

C16_AnswersOnceCallbackAnswered ==
    /\ []C16_StatusOnceAnswered
    /\ \A r \in Clients :
           /\ (req[r].pc = "fetched") ~> (req[r].pc = "done")
           /\ (Waiting(r) /\ call[r].pc = "done")
                  ~> (Done(r, "processPayment") /\ req[r].status \in {201, 500})

\* The order service has answered the callback and processPayment has not
\* yet returned from client.Do.
C16_Witness ==
    \E r \in Clients :
        /\ Waiting(r)
        /\ call[r].pc = "done"
        /\ call[r].status = 200

\* C17: a POST /payments sends at most one callback, and has sent it exactly
\* when its callback record is there; the callback is sent by the request's
\* first step only, never after an outcome, and only with the request's row in
\* the payments table. A POST /payments that answers 400, or 500 with the
\* insert failed, leaves both tables as they were and sends no callback.
C17_AtMostOnceAfterPersist ==
    \A r \in Clients :
        req[r].op = "processPayment" =>
            /\ req[r].callbacks \in {0, 1}
            /\ req[r].callbacks = 1 <=> call[r].pc # "none"
            /\ req[r].callbacks = 1 => PaymentRowStays(req[r])

PersistFailed(h) ==
    /\ h.op = "processPayment"
    /\ h.pc = "done"
    /\ h.status \in {400, 500}
    /\ h.payment.id = 0

C17_SendStep ==
    \A r \in Clients :
        /\ (call'[r].pc = "start" /\ call'[r] # call[r]) =>
               /\ req[r].pc = "done"
               /\ req'[r].op = "processPayment"
               /\ req'[r].payment.id \in DOMAIN payments' \ DOMAIN payments
        /\ (req[r].pc = "done" /\ req'[r] # req[r] /\ PersistFailed(req'[r])) =>
               /\ payments' = payments
               /\ orders' = orders
               /\ call'[r].pc = "none"
               /\ req'[r].callbacks = 0

C17_SettlementProtocolOrder ==
    []C17_AtMostOnceAfterPersist /\ [][C17_SendStep]_vars

\* The insert failed for a payment of an existing, unpaid order.
C17_Witness ==
    \E r \in Clients :
        /\ PersistFailed(req[r])
        /\ req[r].status = 500
        /\ Exists(orders, req[r].id)
        /\ ~orders[req[r].id.lo].paid
        /\ DOMAIN payments = {}
        /\ call[r].pc = "none"

\* C18: on every order of the table, paid or not, MarkPaid answers 200 with
\* the order, sets paid = true and changes nothing else of the table, and a
\* second MarkPaid answers 200 again and leaves the table as the first left
\* it; a payOrder that answers 200, for a client or for a callback, has
\* changed the table in just that way.
C18_Idempotent ==
    \A id \in DOMAIN orders :
        LET once  == MarkPaid(orders, id)
            twice == MarkPaid(once.store, id)
        IN  /\ once.req.status = 200
            /\ once.store = [orders EXCEPT ![id].paid = TRUE]
            /\ once.req.order = Struct(id, once.store[id])
            /\ twice.req.status = 200
            /\ twice.store = once.store
            /\ twice.req.order = once.req.order

C18_PaySaves ==
    \A r \in Clients :
        /\ (/\ req[r].op = "payOrder" /\ req[r].pc = "fetched"
            /\ req'[r].pc = "done" /\ req'[r].status = 200) =>
               /\ req[r].id.lo \in DOMAIN orders
               /\ orders' = [orders EXCEPT ![req[r].id.lo].paid = TRUE]
        /\ (/\ call[r].pc = "fetched"
            /\ call'[r].pc = "done" /\ call'[r].status = 200) =>
               /\ call[r].id.lo \in DOMAIN orders
               /\ orders' = [orders EXCEPT ![call[r].id.lo].paid = TRUE]

C18_MarkPaidUnconditional ==
    []C18_Idempotent /\ [][C18_PaySaves]_vars

\* A PUT /orders/<id>/pay has answered 200 with the order as the table holds
\* it, and the table has a paid and an unpaid order for MarkPaid to run on.
C18_Witness ==
    \E r \in Clients :
        /\ Done(r, "payOrder")
        /\ req[r].status = 200
        /\ Exists(orders, req[r].id)
        /\ req[r].order = Struct(req[r].id.lo, orders[req[r].id.lo])
        /\ req[r].order.paid
        /\ \E id \in DOMAIN orders : ~orders[id].paid

\* C19, as claimed: once a PUT /orders/1/pay has answered 200, GET /orders/1
\* answers paid = true, whatever concurrent PUT /orders/1 with bodies of item
\* and amount do.
C19_PaidStable ==
    \A r \in RaceClients :
        (Done(r, "payOrder") /\ req[r].status = 200)
            => GetOrderResult(orders, req[r].id, TRUE).order.paid

\* A PUT /orders/1 that has fetched the row, or has saved it.
Fetched(h) ==
    /\ h.op = "updateOrder"
    /\ h.pc = "fetched" \/ (h.pc = "done" /\ h.status = 200)

\* C19, amended: a PUT /orders/1 writes back the paid it fetched; paid goes
\* from true to false only by the save of a PUT /orders/1 that fetched the
\* row while it was unpaid; and once a PUT /orders/1/pay has answered 200,
\* GET /orders/1 answers paid = true as long as every PUT /orders/1 under way
\* or answered fetched the row paid.
C19_PaidWhenNoStaleUpdate ==
    (/\ \E r \in RaceClients : Done(r, "payOrder") /\ req[r].status = 200
     /\ \A q \in RaceClients : Fetched(req[q]) => req[q].order.paid)
        => GetOrderResult(orders, W(RaceOrderId), TRUE).order.paid

C19_UpdateWritesFetchedPaid ==
    /\ \A r \in RaceClients :
           (/\ req[r].op = "updateOrder" /\ req[r].pc = "fetched"
            /\ req'[r].pc = "done" /\ req'[r].status = 200) =>
               orders'[RaceOrderId].paid = req[r].order.paid
    /\ (orders[RaceOrderId].paid /\ ~orders'[RaceOrderId].paid) =>
           \E r \in RaceClients :
               /\ req[r].op = "updateOrder" /\ req[r].pc = "fetched"
               /\ ~req[r].order.paid
               /\ req'[r].pc = "done" /\ req'[r].status = 200

C19_LastWriteWinsOnPaid ==
    []C19_PaidWhenNoStaleUpdate /\ [][C19_UpdateWritesFetchedPaid]_vars

\* PUT /orders/1/pay and PUT /orders/1 have both answered 200 and the order
\* is unpaid: the update fetched before the pay saved, and saved after it.
C19_Witness ==
    \E r, q \in RaceClients :
        /\ Done(r, "payOrder") /\ req[r].status = 200
        /\ Done(q, "updateOrder") /\ req[q].status = 200
        /\ ~orders[RaceOrderId].paid

\* C20: when a POST /payments is done and the row it wrote is in the payments
\* table, it has sent a callback for the row's order; and a POST /payments
\* that sent none has left no row.
C20_PersistedImpliesCallback ==
    \A r \in Clients :
        (Done(r, "processPayment") /\ req[r].payment.id \in DOMAIN payments)
            => /\ req[r].callbacks = 1
               /\ call[r].id = payments[req[r].payment.id].order_id

====
